---- MODULE Spec2Model ----
(***************************************************************************)
(* Backlink retrieval and tier-2 enrichment pipeline of backlink-audit:    *)
(* the RateLimiter, make_ahrefs_request under its tenacity retry, the      *)
(* st.cache_data wrappers and analyze_tier2_links_parallel.                *)
(*                                                                         *)
(* The pipeline is modelled as components over one set of variables.  Each *)
(* component has its own initial condition and actions, and a              *)
(* specification runs one component while the others stay at rest:         *)
(*   SpecAhrefs    RateLimiter.wait of pages/1_Ahrefs_Analysis.py (no lock)*)
(*   SpecComparer  RateLimiter.wait of pages/2_Comparer_notre_domaine.py   *)
(*   SpecBurst     the Comparer limiter under K simultaneous callers       *)
(*   SpecBatch     the button handler and the tier-2 enrichment batch      *)
(*   SpecFetch     calls of a cached function: the st.cache_data lookup    *)
(*                 and, on a miss, make_ahrefs_request under its retry     *)
(*   SpecQuery     the button handler from the bulk fetch to the display   *)
(*   SpecAggr      the aggregators applied to a record set                 *)
(*   SpecProgress  the progress reports of one enrichment batch            *)
(*   SpecKey       the keys under which st.cache_data stores its entries   *)
(*   SpecLive      one batch down to the attempts and the limiter's lock;  *)
(*                 FairLive is SpecLive under fair scheduling              *)
(* The limiter counts time in ticks, TicksPerSec of them to the second;    *)
(* the cache and the retry back-off count whole seconds.                   *)
(***************************************************************************)
EXTENDS Integers, Sequences, FiniteSets, Bags, TLC

VARIABLES
    variant,      \* which page's code runs: "ahrefs" or "comparer"
    clock,        \* datetime.now(), in ticks
    requests,     \* RateLimiter.requests: the list of recorded timestamps
    lockHeld,     \* RateLimiter._lock (comparer only)
    threads,      \* bag of the wait() calls in progress (one record per caller)
    nCalls,       \* number of wait() calls made so far
    released,     \* history: the instants at which wait() returned, in order
    nRaised,      \* history: number of wait() calls that raised IndexError
    lostAppend,   \* history: a recorded timestamp was dropped by a reassignment
    \* the button handler and analyze_tier2_links_parallel
    urls,         \* df['url_from']
    check_tier2,  \* the "Analyser les liens de Niveau 2" checkbox
    hpc,          \* where the handler is: fetched, running, returned, shown, error, keyerror
    queue,        \* the executor's work queue: indices of the URLs not yet taken
    status,       \* per URL: queued, running or done
    future,       \* per URL: what process_url returned
    reply,        \* history, per URL: how the request of its lookup ended
    starts,       \* history, per URL: how many workers took it
    tier2_live_links,       \* the first list returned by the batch
    tier2_live_refdomains,  \* the second list returned by the batch
    df,           \* the tier-2 columns of the record set
    \* a cached function and make_ahrefs_request
    fn,             \* the cached function that is called, always with the same arguments
    inPool,         \* the calls are made by a worker of the pool, next to other workers
    seconds,        \* the cache's timer, in seconds
    jumps,          \* number of times the timer was moved forward between steps
    entry,          \* the cache entry of these arguments
    cpc,            \* "idle", or "miss" while the function body runs
    callAt,         \* when the call in progress was made
    calls,          \* history: one record per finished call
    rpc,            \* make_ahrefs_request: idle, wait, send, backoff, returned, raised
    attempt_number, \* tenacity's retry_state.attempt_number
    sent,           \* history: network requests issued by this invocation
    waits,          \* history: rate_limiter.wait() calls that returned
    outcomes,       \* history: how each attempt of this invocation ended
    delays,         \* history: the back-off sleeps of this invocation
    result,         \* what the invocation returned, or the failure of its last attempt
    \* the button handler around the batch
    limit,          \* the "Nombre de backlinks à analyser" slider
    bulk,           \* history: how the request of the bulk fetch ended
    views,          \* what the aggregators produced for display
    \* the aggregators
    adf,            \* the DataFrame the aggregators are given: its columns and rows
    adf0,           \* history: that DataFrame as it was fetched (and enriched)
    apc,            \* the aggregator to run next
    yearly_data,    \* analyze_yearly_distribution(df)
    dr_distribution,    \* analyze_dr_distribution(df)
    links_distribution, \* analyze_tier_distribution(df, 'tier2_live_links')
    max_metrics,    \* get_max_metrics(df)
    csv,            \* the columns of df.to_csv(index=False)
    \* the progress reports of analyze_tier2_links_parallel
    total_urls,     \* len(df)
    processed,      \* the counter: processed (Ahrefs page), processed_count (Comparer page)
    processed_lock, \* Comparer page: the task that holds processed_lock, 0 if none
    ppc,            \* where each call of process_url stands
    loaded,         \* Ahrefs page: the value of processed that a task read to add 1 to it
    progress,       \* Ahrefs page: the local `progress` of a task, as a number of URLs
    reported,       \* history: the values passed to progress_bar.progress, as numbers of URLs
    polls,          \* Comparer page: passes of the main thread through its waiting loop
    mpc,            \* the main thread: waiting for the pool, or returned
    \* the keys of st.cache_data
    kFn,            \* the cached function that is called
    kNow,           \* the time, in seconds since midnight of day 0
    kCache,         \* for each tuple of arguments, the entry stored under it
    kLast,          \* history: the last call, what it asked for and what it was served
    kCalls,         \* calls made so far
    kJumps,         \* time steps taken so far
    \* one enrichment batch down to the attempts of its lookups
    wtotal,         \* len(df)
    wpc,            \* where each call of process_url stands
    wattempt,       \* the attempt number of each lookup
    wlock,          \* the lookup that holds RateLimiter._lock, 0 if none
    wmain           \* the main thread: waiting for the futures, or returned

rlVars == <<clock, requests, lockHeld, threads, nCalls, released, nRaised, lostAppend>>

batchVars == <<urls, check_tier2, hpc, queue, status, future, reply, starts, tier2_live_links, tier2_live_refdomains, df>>

fetchVars == <<fn, inPool, seconds, jumps, entry, cpc, callAt, calls, rpc, attempt_number, sent, waits, outcomes, delays, result>>

queryVars == <<limit, bulk, views>>

aggVars == <<adf, adf0, apc, yearly_data, dr_distribution, links_distribution, max_metrics, csv>>

progVars == <<total_urls, processed, processed_lock, ppc, loaded, progress, reported, polls, mpc>>

keyVars == <<kFn, kNow, kCache, kLast, kCalls, kJumps>>

liveVars == <<wtotal, wpc, wattempt, wlock, wmain>>

vars == <<variant, rlVars, batchVars, fetchVars, queryVars, aggVars, progVars, keyVars, liveVars>>

\* What the actions of one component leave alone.
OutsideRL == <<batchVars, fetchVars, queryVars, aggVars, progVars, keyVars, liveVars>>
OutsideBatch == <<rlVars, fetchVars, queryVars, aggVars, progVars, keyVars, liveVars>>
OutsideFetch == <<rlVars, batchVars, queryVars, aggVars, progVars, keyVars, liveVars>>
OutsideQuery == <<rlVars, fetchVars, aggVars, progVars, keyVars, liveVars>>
OutsideAgg == <<rlVars, batchVars, fetchVars, queryVars, progVars, keyVars, liveVars>>
OutsideProg == <<rlVars, batchVars, fetchVars, queryVars, aggVars, keyVars, liveVars>>
OutsideKey == <<rlVars, batchVars, fetchVars, queryVars, aggVars, progVars, liveVars>>
OutsideLive == <<rlVars, batchVars, fetchVars, queryVars, aggVars, progVars, keyVars>>

---------------------------------------------------------------------------
(* Bounds of the model *)

TicksPerSec == 2
MaxClock == 4
MaxCallers == 2
MaxCalls == 11
MaxRaceCalls == 7
MaxBurst == 12
MaxUrls == 6
MaxCacheCalls == 3
MaxJumps == 1
MaxLimit == 2
MaxRecords == 3
MaxRows == 2
MaxTasks == 3
MaxPolls == 2
MaxKeyCalls == 2
MaxKeyJumps == 2
MaxLiveTasks == 2

(* Program constants *)

requests_per_second == 5

---------------------------------------------------------------------------
(* Components at rest *)

\* A record set without the tier-2 columns.
NoColumns == [tier2 |-> FALSE, tier2_live_links |-> <<>>, tier2_live_refdomains |-> <<>>]

\* The handler at rest: the state of the batch while another component runs.
BatchIdle ==
    /\ urls = <<>>
    /\ check_tier2 = FALSE
    /\ hpc = "idle"
    /\ queue = <<>>
    /\ status = <<>>
    /\ future = <<>>
    /\ reply = <<>>
    /\ starts = <<>>
    /\ tier2_live_links = <<>>
    /\ tier2_live_refdomains = <<>>
    /\ df = NoColumns

\* A tier-2 result that is not there yet, a parsed body that is not there,
\* a request that has not ended, a cached value that is not there.
NoResult == [exc |-> FALSE, live |-> -1, refdomains |-> -1]
NoDoc == [metrics |-> FALSE, live |-> -2, live_refdomains |-> -2, backlinks |-> -2]
NoError == [type |-> "none", kind |-> "none", body |-> "", of |-> ""]
NoOutcome == [kind |-> "none", doc |-> NoDoc, error |-> NoError, last |-> NoError]
NoValue == [exc |-> FALSE, stats |-> NoResult, doc |-> NoDoc]
NoEntry == [stored |-> FALSE, at |-> 0, value |-> NoValue]

\* No cached function is being called.
FetchIdle ==
    /\ fn = "none"
    /\ inPool = FALSE
    /\ seconds = 0
    /\ jumps = 0
    /\ entry = NoEntry
    /\ cpc = "idle"
    /\ callAt = 0
    /\ calls = <<>>
    /\ rpc = "idle"
    /\ attempt_number = 0
    /\ sent = 0
    /\ waits = 0
    /\ outcomes = <<>>
    /\ delays = <<>>
    /\ result = NoOutcome

\* Nothing displayed.
NoViews == [produced |-> FALSE, total |-> 0]

\* The button has not been pressed.
QueryIdle ==
    /\ limit = 0
    /\ bulk = NoOutcome
    /\ views = NoViews

\* pd.DataFrame([]): no column, no row.
NoFrame == [columns |-> {}, rows |-> <<>>]
NoMetrics == [max_dr |-> 0, max_tier |-> 0, max_dr_url |-> 0, max_dr_value |-> 0]

\* No aggregator has been called.
AggIdle ==
    /\ adf = NoFrame
    /\ adf0 = NoFrame
    /\ apc = "idle"
    /\ yearly_data = <<>>
    /\ dr_distribution = <<>>
    /\ links_distribution = <<>>
    /\ max_metrics = NoMetrics
    /\ csv = {}

NoUrl == [pad |-> FALSE, scheme |-> "", host |-> "", enc |-> "raw"]
NoRequest == [endpoint |-> "", target |-> NoUrl, limit |-> 0, date |-> -1]
NoKeyEntry == [stored |-> FALSE, at |-> 0, request |-> NoRequest]
NoKeyCall == [made |-> FALSE, hit |-> FALSE, request |-> NoRequest, served |-> NoRequest]

KeyIdle ==
    /\ kFn = ""
    /\ kNow = 0
    /\ kCache = <<>>
    /\ kLast = NoKeyCall
    /\ kCalls = 0
    /\ kJumps = 0

LiveIdle ==
    /\ wtotal = 0
    /\ wpc = <<>>
    /\ wattempt = <<>>
    /\ wlock = 0
    /\ wmain = "idle"

ProgIdle ==
    /\ total_urls = 0
    /\ processed = 0
    /\ processed_lock = 0
    /\ ppc = <<>>
    /\ loaded = <<>>
    /\ progress = <<>>
    /\ reported = <<>>
    /\ polls = 0
    /\ mpc = "idle"

RLIdle ==
    /\ clock = 0
    /\ requests = <<>>
    /\ lockHeld = FALSE
    /\ threads = EmptyBag
    /\ nCalls = 0
    /\ released = <<>>
    /\ nRaised = 0
    /\ lostAppend = FALSE

---------------------------------------------------------------------------
(* RateLimiter *)

Variants == {"ahrefs", "comparer"}

UsesLock == variant = "comparer"

\* [req for req in self.requests if now - req < timedelta(seconds=1)]
Pruned(reqs, now) == SelectSeq(reqs, LAMBDA req : now - req < TicksPerSec)

\* sleep_time = 1.0 - (now - self.requests[0]).total_seconds()
SleepTime(now, first) == TicksPerSec - (now - first)

Caller(pc) == [pc |-> pc, now |-> 0, tmp |-> <<>>, wake |-> 0]

Step(t, u) == threads' = (threads (-) SetToBag({t})) (+) SetToBag({u})

Running == BagToSet(threads)

\* A caller enters wait().
WaitCall ==
    /\ nCalls < (IF UsesLock THEN MaxCalls ELSE MaxRaceCalls)
    /\ BagCardinality(threads) < MaxCallers
    /\ nCalls' = nCalls + 1
    /\ threads' = threads (+) SetToBag({Caller(IF UsesLock THEN "lock" ELSE "prune")})
    /\ UNCHANGED <<OutsideRL, variant, clock, requests, lockHeld, released, nRaised, lostAppend>>

\* with self._lock:
WaitAcquire ==
    \E t \in Running :
        /\ t.pc = "lock"
        /\ ~lockHeld
        /\ lockHeld' = TRUE
        /\ Step(t, [t EXCEPT !.pc = "prune"])
        /\ UNCHANGED <<OutsideRL, variant, clock, requests, nCalls, released, nRaised, lostAppend>>

\* now = datetime.now(); the list comprehension reads self.requests
WaitPrune ==
    \E t \in Running :
        /\ t.pc = "prune"
        /\ Step(t, [t EXCEPT !.pc = "assign", !.now = clock,
                             !.tmp = Pruned(requests, clock)])
        /\ UNCHANGED <<OutsideRL, variant, clock, requests, lockHeld, nCalls, released,
                       nRaised, lostAppend>>

\* self.requests = [...]; if len(self.requests) >= self.requests_per_second
WaitAssign ==
    \E t \in Running :
        /\ t.pc = "assign"
        /\ requests' = t.tmp
        /\ lostAppend' = (lostAppend \/ Len(Pruned(requests, t.now)) > Len(t.tmp))
        /\ Step(t, [t EXCEPT !.tmp = <<>>,
                             !.pc = IF Len(t.tmp) >= requests_per_second
                                    THEN "first" ELSE "append"])
        /\ UNCHANGED <<OutsideRL, variant, clock, lockHeld, nCalls, released, nRaised>>

\* sleep_time = 1.0 - (now - self.requests[0]); if sleep_time > 0: time.sleep
WaitFirst ==
    \E t \in Running :
        /\ t.pc = "first"
        /\ IF requests = <<>>
           THEN \* IndexError leaves wait()
                /\ threads' = threads (-) SetToBag({t})
                /\ nRaised' = nRaised + 1
           ELSE /\ Step(t, [t EXCEPT !.pc = "append",
                        !.wake = IF SleepTime(t.now, requests[1]) > 0
                                 THEN clock + SleepTime(t.now, requests[1])
                                 ELSE 0])
                /\ UNCHANGED nRaised
        /\ UNCHANGED <<OutsideRL, variant, clock, requests, lockHeld, nCalls, released,
                       lostAppend>>

\* self.requests.append(now), after the sleep if any; wait() returns
WaitAppend ==
    \E t \in Running :
        /\ t.pc = "append"
        /\ clock >= t.wake
        /\ requests' = Append(requests, t.now)
        /\ released' = Append(released, clock)
        /\ lockHeld' = FALSE
        /\ threads' = threads (-) SetToBag({t})
        /\ UNCHANGED <<OutsideRL, variant, clock, nCalls, nRaised, lostAppend>>

Tick ==
    /\ clock < MaxClock
    /\ clock' = clock + 1
    /\ UNCHANGED <<OutsideRL, variant, requests, lockHeld, threads, nCalls, released,
                   nRaised, lostAppend>>

\* A caller that can take its next step without time passing: it is neither
\* blocked on the lock nor inside time.sleep.
Runnable(t) ==
    \/ t.pc \in {"prune", "assign", "first"}
    \/ t.pc = "lock" /\ ~lockHeld
    \/ t.pc = "append" /\ clock >= t.wake

\* Time passes only while every caller is blocked or asleep: the statements of
\* wait() take no time and time.sleep wakes exactly on time.
TickExact ==
    /\ clock < MaxClock
    /\ \A t \in Running : ~Runnable(t)
    /\ clock' = clock + 1
    /\ UNCHANGED <<OutsideRL, variant, requests, lockHeld, threads, nCalls, released,
                   nRaised, lostAppend>>

InitAhrefs == variant = "ahrefs" /\ RLIdle /\ BatchIdle /\ FetchIdle /\ QueryIdle /\ AggIdle /\ ProgIdle /\ KeyIdle /\ LiveIdle
NextAhrefs == WaitCall \/ WaitPrune \/ WaitAssign \/ WaitFirst \/ WaitAppend \/ Tick
SpecAhrefs == InitAhrefs /\ [][NextAhrefs]_vars

InitComparer == variant = "comparer" /\ RLIdle /\ BatchIdle /\ FetchIdle /\ QueryIdle /\ AggIdle /\ ProgIdle /\ KeyIdle /\ LiveIdle
NextComparer ==
    \/ WaitCall \/ WaitAcquire \/ WaitPrune \/ WaitAssign \/ WaitFirst \/ WaitAppend
    \/ TickExact
SpecComparer == InitComparer /\ [][NextComparer]_vars

\* K callers enter wait() at the same instant (K > requests_per_second).
InitBurst ==
    /\ variant = "comparer"
    /\ clock = 0
    /\ requests = <<>>
    /\ lockHeld = FALSE
    /\ nCalls \in (requests_per_second + 1)..MaxBurst
    /\ threads = [t \in {Caller("lock")} |-> nCalls]
    /\ released = <<>>
    /\ nRaised = 0
    /\ lostAppend = FALSE
    /\ BatchIdle
    /\ FetchIdle
    /\ QueryIdle
    /\ AggIdle /\ ProgIdle /\ KeyIdle /\ LiveIdle
NextBurst ==
    WaitAcquire \/ WaitPrune \/ WaitAssign \/ WaitFirst \/ WaitAppend \/ TickExact
SpecBurst == InitBurst /\ [][NextBurst]_vars

---------------------------------------------------------------------------
(* Tier-2 statistics lookup: what one call of get_tier2_stats_cached (pages) *)
(* or get_tier2_stats (app.py) returns for the outcome of its request.      *)

\* A value a lookup returns: the pair (live_backlinks, live_refdomains), or an
\* exception leaving the function.
Ret(l, r) == [exc |-> FALSE, live |-> l, refdomains |-> r]
Raised == [exc |-> TRUE, live |-> 0, refdomains |-> 0]

\* Parsed response bodies of the backlinks-stats endpoint; -1 stands for a key
\* the body does not have, so that DocEmpty is the body {}.
DocFull == [metrics |-> TRUE, live |-> 3, live_refdomains |-> 2, backlinks |-> -1]
DocEmpty == [metrics |-> FALSE, live |-> -1, live_refdomains |-> -1, backlinks |-> -1]
Docs == {DocFull, DocEmpty}

\* How the request of a lookup ended: with a parsed body, or with the failure
\* of its last attempt.
Failures == {"transport", "status", "parse"}
Outcomes ==
    {[kind |-> "ok", doc |-> d, error |-> NoError, last |-> NoError] : d \in Docs} \cup
    {[kind |-> k, doc |-> NoDoc, error |-> NoError, last |-> NoError] : k \in Failures}

\* dict.get(key, 0)
GetOr0(v) == IF v = -1 THEN 0 ELSE v

\* stats.get('metrics', {}).get('live', 0), stats.get('metrics', {}).get(...)
StatsOf(doc) ==
    IF ~doc.metrics THEN Ret(0, 0)
    ELSE Ret(GetOr0(doc.live), GetOr0(doc.live_refdomains))

\* (mutant: the exception is not caught)
CatchNothing(r) == r

\* except Exception as e: ... return 0, 0
Catch(r) == IF r.exc THEN Ret(0, 0) ELSE r

Tier2Stats(o) == Catch(IF o.kind = "ok" THEN StatsOf(o.doc) ELSE Raised)

---------------------------------------------------------------------------
(* Enrichment batch: the button handler and analyze_tier2_links_parallel *)

max_workers == 5

BatchVariants == {"app", "ahrefs", "comparer"}

\* app.py runs the lookups one after the other in the handler's own loop.
PoolSize == IF variant = "app" THEN 1 ELSE max_workers

\* process_url: the Comparer page wraps the lookup in its own try/except
ProcessUrl(r) == IF variant = "comparer" THEN Catch(r) ELSE r

Tasks == 1..Len(urls)

NumRunning == Cardinality({i \in Tasks : status[i] = "running"})

\* (mutant: a new thread for every submitted URL)
WorkerAlwaysFree == TRUE

\* A worker of the pool is free.
WorkerFree == NumRunning < PoolSize

\* The work queue after a worker took its head.
Dequeue(q) == Tail(q)

\* (mutant: the batch returns once some future is done)
SomeDone == \E i \in Tasks : status[i] = "done"

\* every future is done
AllDone == \A i \in Tasks : status[i] = "done"

\* (mutant: the results are taken in reverse order)
LiveLinksReversed(results) ==
    [i \in 1..Len(results) |-> results[Len(results) + 1 - i].live]

\* tier2_live_links, tier2_live_refdomains = zip(*tier2_results)
LiveLinks(results) == [i \in 1..Len(results) |-> results[i].live]
LiveRefdomains(results) == [i \in 1..Len(results) |-> results[i].refdomains]

\* (mutant: the checkbox is not looked at)
EnrichRegardless == variant = "app" \/ Len(urls) > 0

\* if check_tier2 and len(df) > 0 (app.py: if check_tier2)
WantsTier2 == check_tier2 /\ (variant = "app" \/ Len(urls) > 0)

\* pd.DataFrame([]) has no 'url_from' column
HasUrlColumn == Len(urls) > 0

\* the handler starts the batch: every URL of df['url_from'] is submitted
HandlerEnrich ==
    /\ hpc = "fetched"
    /\ WantsTier2
    /\ HasUrlColumn
    /\ hpc' = "running"
    /\ queue' = [i \in 1..Len(urls) |-> i]
    /\ UNCHANGED <<OutsideBatch, variant, urls, check_tier2, status, future, reply, starts, tier2_live_links, tier2_live_refdomains, df>>

\* the handler goes on without enrichment
HandlerSkip ==
    /\ hpc = "fetched"
    /\ ~WantsTier2
    /\ hpc' = "shown"
    /\ UNCHANGED <<OutsideBatch, variant, urls, check_tier2, queue, status, future, reply, starts, tier2_live_links, tier2_live_refdomains, df>>

\* app.py asks for df['url_from'] of an empty record set: KeyError ends the
\* handler before any lookup
HandlerKeyError ==
    /\ hpc = "fetched"
    /\ WantsTier2
    /\ ~HasUrlColumn
    /\ hpc' = "keyerror"
    /\ UNCHANGED <<OutsideBatch, variant, urls, check_tier2, queue, status, future, reply, starts, tier2_live_links, tier2_live_refdomains, df>>

\* a free worker takes the next URL of the queue and calls the lookup
StartTask ==
    /\ hpc = "running"
    /\ queue # <<>>
    /\ WorkerFree
    /\ queue' = Dequeue(queue)
    /\ starts' = [starts EXCEPT ![Head(queue)] = @ + 1]
    /\ status' = [status EXCEPT ![Head(queue)] = "running"]
    /\ UNCHANGED <<OutsideBatch, variant, urls, check_tier2, hpc, future, reply, tier2_live_links, tier2_live_refdomains, df>>

\* the request of a running lookup ends and process_url returns: the future
\* of the URL is done
FinishTask ==
    /\ hpc = "running"
    /\ \E i \in Tasks, o \in Outcomes :
        /\ status[i] = "running"
        /\ status' = [status EXCEPT ![i] = "done"]
        /\ future' = [future EXCEPT ![i] = ProcessUrl(Tier2Stats(o))]
        /\ reply' = [reply EXCEPT ![i] = o]
    /\ UNCHANGED <<OutsideBatch, variant, urls, check_tier2, hpc, queue, starts,
                   tier2_live_links, tier2_live_refdomains, df>>

\* every future is done: the results are read in submission order and the
\* function returns its two lists, or the exception of a future
BatchReturn ==
    /\ hpc = "running"
    /\ AllDone
    /\ IF \E i \in Tasks : future[i].exc
       THEN /\ hpc' = "error"
            /\ UNCHANGED <<tier2_live_links, tier2_live_refdomains>>
       ELSE /\ hpc' = "returned"
            /\ tier2_live_links' = LiveLinks(future)
            /\ tier2_live_refdomains' = LiveRefdomains(future)
    /\ UNCHANGED <<OutsideBatch, variant, urls, check_tier2, queue, status, future, reply, starts, df>>

\* df['tier2_live_links'] = ...; df['tier2_live_refdomains'] = ...
HandlerAttach ==
    /\ hpc = "returned"
    /\ hpc' = "shown"
    /\ df' = [tier2 |-> TRUE, tier2_live_links |-> tier2_live_links,
              tier2_live_refdomains |-> tier2_live_refdomains]
    /\ UNCHANGED <<OutsideBatch, variant, urls, check_tier2, queue, status, future, reply, starts, tier2_live_links, tier2_live_refdomains>>

\* df['url_from'] of a record set of n backlinks; the URLs are told apart by
\* their place in the list.
UrlList(n) == [i \in 1..n |-> i]

BatchInit ==
    /\ variant \in BatchVariants
    /\ urls \in {UrlList(n) : n \in 0..MaxUrls}
    /\ check_tier2 \in BOOLEAN
    /\ hpc = "fetched"
    /\ queue = <<>>
    /\ status = [i \in 1..Len(urls) |-> "queued"]
    /\ future = [i \in 1..Len(urls) |-> NoResult]
    /\ reply = [i \in 1..Len(urls) |-> NoOutcome]
    /\ starts = [i \in 1..Len(urls) |-> 0]
    /\ tier2_live_links = <<>>
    /\ tier2_live_refdomains = <<>>
    /\ df = NoColumns

InitBatch == BatchInit /\ RLIdle /\ FetchIdle /\ QueryIdle /\ AggIdle /\ ProgIdle /\ KeyIdle /\ LiveIdle
NextBatch ==
    HandlerEnrich \/ HandlerSkip \/ HandlerKeyError \/ StartTask \/ FinishTask \/ BatchReturn \/ HandlerAttach
SpecBatch == InitBatch /\ [][NextBatch]_vars

---------------------------------------------------------------------------
(* make_ahrefs_request under                                                *)
(* @retry(stop=stop_after_attempt(3),                                       *)
(*        wait=wait_exponential(multiplier=1, min=4, max=10))               *)

stop_after_attempt == 3
wait_multiplier == 1
wait_min == 4
wait_max == 10
exp_base == 2

Max(a, b) == IF a >= b THEN a ELSE b
Min(a, b) == IF a <= b THEN a ELSE b

RECURSIVE Power(_, _)
Power(b, n) == IF n = 0 THEN 1 ELSE b * Power(b, n - 1)

\* tenacity's wait_exponential, called after attempt n failed:
\*   exp = exp_base ** (attempt_number - 1); result = multiplier * exp
\*   return max(max(0, min), min(result, max))
WaitExponential(n) ==
    Max(Max(0, wait_min), Min(wait_multiplier * Power(exp_base, n - 1), wait_max))

\* tenacity's stop_after_attempt(3)
Stop(n) == n >= stop_after_attempt

CachedFunctions == {"get_backlinks_cached", "get_tier2_stats_cached"}

\* Parsed bodies of the all-backlinks endpoint: a list of two backlinks, or {}.
DocBacklinks == [metrics |-> FALSE, live |-> -1, live_refdomains |-> -1, backlinks |-> 2]
DocsOf(f) == IF f = "get_tier2_stats_cached" THEN Docs ELSE {DocBacklinks, DocEmpty}

\* A response body is text: it either is the JSON text of a document or is not
\* JSON at all.
JsonText(d) == [json |-> TRUE, doc |-> d, text |-> "json"]
NotJson == [json |-> FALSE, doc |-> NoDoc, text |-> "html"]
NoBody == [json |-> FALSE, doc |-> NoDoc, text |-> ""]

\* The provider's raw error body of a non-200 response.
ErrorBody(st) ==
    [json |-> FALSE, doc |-> NoDoc,
     text |-> IF st = 429 THEN "rate limit exceeded" ELSE "internal error"]

\* What conn.request / getresponse / read give: no response at all (status 0
\* stands for the transport error), a 200 with a body, or another status with
\* the provider's error body.
Responses ==
    {[status |-> 0, body |-> NoBody]} \cup
    {[status |-> 200, body |-> JsonText(d)] : d \in DocsOf(fn)} \cup
    {[status |-> 200, body |-> NotJson]} \cup
    {[status |-> st, body |-> ErrorBody(st)] : st \in {429, 500}}

\* How an attempt that received r ends: the body of a 200 goes through
\* json.loads, any other status raises Exception("Erreur API: ...").
AttemptKind(r) ==
    IF r.status = 0 THEN "transport"
    ELSE IF r.status # 200 THEN "status"
    ELSE IF ~r.body.json THEN "parse"
    ELSE "ok"

\* json.loads of a body that is JSON text
JsonLoads(body) == body.doc

\* rate_limiter.wait() can raise only where it runs without its lock next to
\* other workers: the Ahrefs page's limiter, called from the pool (SpecAhrefs
\* reaches nRaised > 0).
WaitMayRaise == variant = "ahrefs" /\ inPool

\* An exception as its handler sees it: its class, and the failure kind and
\* the provider's body that str(e) carries; `of` is the class of the wrapped
\* exception that the message of a RetryError names.
Exc(type, kind, body) == [type |-> type, kind |-> kind, body |-> body, of |-> ""]

\* The exception that ends an attempt which received r.  The Ahrefs page lets
\* the original exception out; the Comparer page re-raises HTTPException and
\* JSONDecodeError as Exception("Erreur HTTP: ...") / ("Erreur de décodage
\* JSON: ...").  Only the non-200 message holds the body of the response.
AttemptError(r) ==
    CASE AttemptKind(r) = "status" -> Exc("Exception", "status", r.body.text)
      [] AttemptKind(r) = "parse" ->
            Exc(IF variant = "comparer" THEN "Exception" ELSE "JSONDecodeError", "parse", "")
      [] OTHER ->
            Exc(IF variant = "comparer" THEN "Exception" ELSE "HTTPException", "transport", "")

\* self.requests[0] on an empty list raises IndexError before `conn` is
\* bound; the `finally: conn.close()` of the Ahrefs page then raises
\* UnboundLocalError in its place
WaitError == Exc("UnboundLocalError", "wait", "")

\* tenacity, reraise=False: raise RetryError(last_attempt); its message is
\* "RetryError[<Future at ... state=finished raised Exception>]"
RetryError(e) == [type |-> "RetryError", kind |-> "none", body |-> "", of |-> e.type]

\* An attempt ends with the exception e: tenacity stops with RetryError after
\* the third attempt, and otherwise sleeps before the next one.
AttemptFails(e) ==
    /\ outcomes' = Append(outcomes, e.kind)
    /\ IF Stop(attempt_number)
       THEN /\ rpc' = "raised"
            /\ result' = [kind |-> e.kind, doc |-> NoDoc, error |-> RetryError(e), last |-> e]
       ELSE /\ rpc' = "backoff"
            /\ UNCHANGED result

\* (mutant: only the first attempt of an invocation goes through the limiter)
ReqWaitFirstOnly ==
    /\ rpc = "wait"
    /\ waits' = IF attempt_number = 1 THEN waits + 1 ELSE waits
    /\ rpc' = "send"
    /\ UNCHANGED <<outcomes, result>>
    /\ UNCHANGED <<OutsideFetch, variant, fn, inPool, seconds, jumps, entry, cpc, callAt, calls, attempt_number, sent, delays>>

\* rate_limiter.wait()
ReqWait ==
    /\ rpc = "wait"
    /\ \/ /\ waits' = waits + 1
          /\ rpc' = "send"
          /\ UNCHANGED <<outcomes, result>>
       \/ /\ WaitMayRaise
          /\ AttemptFails(WaitError)
          /\ UNCHANGED waits
    /\ UNCHANGED <<OutsideFetch, variant, fn, inPool, seconds, jumps, entry, cpc, callAt, calls, attempt_number, sent, delays>>

\* conn.request(...); response = conn.getresponse(); data = response.read();
\* return json.loads(...) or raise
ReqSend ==
    /\ rpc = "send"
    /\ sent' = sent + 1
    /\ \E r \in Responses :
        IF AttemptKind(r) = "ok"
        THEN /\ rpc' = "returned"
             /\ result' = [kind |-> "ok", doc |-> JsonLoads(r.body), error |-> NoError, last |-> NoError]
             /\ outcomes' = Append(outcomes, "ok")
        ELSE AttemptFails(AttemptError(r))
    /\ UNCHANGED <<OutsideFetch, variant, fn, inPool, seconds, jumps, entry, cpc, callAt, calls, attempt_number, waits, delays>>

\* tenacity sleeps wait_exponential(...) seconds and starts the next attempt
ReqBackoff ==
    /\ rpc = "backoff"
    /\ delays' = Append(delays, WaitExponential(attempt_number))
    /\ seconds' = seconds + WaitExponential(attempt_number)
    /\ attempt_number' = attempt_number + 1
    /\ rpc' = "wait"
    /\ UNCHANGED <<OutsideFetch, variant, fn, inPool, jumps, entry, cpc, callAt, calls, sent, waits, outcomes, result>>

---------------------------------------------------------------------------
(* @st.cache_data(ttl=3600) around get_backlinks_cached and                 *)
(* get_tier2_stats_cached                                                   *)

ttl == 3600

\* How far the timer moves between two steps.
Jumps == {ttl - 1, ttl}

\* (mutant: entries never expire)
FreshForever(e, now) == e.stored

\* The entry of the arguments is there and younger than the TTL.
Fresh(e, now) == e.stored /\ now - e.at < ttl

\* bool(result) of a parsed body
Truthy(doc) == doc \notin {DocEmpty, NoDoc}

\* (mutant: get_tier2_stats_cached lets the exception out)
FnValueUncaught(o) ==
    IF o.kind = "ok" /\ (fn = "get_tier2_stats_cached" \/ variant = "ahrefs" \/ Truthy(o.doc))
    THEN [exc |-> FALSE,
          stats |-> IF fn = "get_tier2_stats_cached" THEN StatsOf(o.doc) ELSE NoResult,
          doc |-> IF fn = "get_tier2_stats_cached" THEN NoDoc ELSE o.doc]
    ELSE [exc |-> TRUE, stats |-> NoResult, doc |-> NoDoc]

\* What the body of the cached function returns for the outcome o of its
\* request.  get_tier2_stats_cached catches everything; get_backlinks_cached
\* lets the exception out, and on the Comparer page raises on an empty body.
FnValue(o) ==
    IF fn = "get_tier2_stats_cached"
    THEN [exc |-> FALSE, stats |-> Tier2Stats(o), doc |-> NoDoc]
    ELSE IF o.kind = "ok" /\ (variant = "ahrefs" \/ Truthy(o.doc))
         THEN [exc |-> FALSE, stats |-> NoResult, doc |-> o.doc]
         ELSE [exc |-> TRUE, stats |-> NoResult, doc |-> NoDoc]

\* What the bulk fetch gives the handler: get_backlinks of app.py returns the
\* parsed body, or None after any failure; the pages call get_backlinks_cached.
Backlinks(o) ==
    IF variant = "app"
    THEN [exc |-> FALSE, stats |-> NoResult, doc |-> IF o.kind = "ok" THEN o.doc ELSE NoDoc]
    ELSE IF o.kind = "ok" /\ (variant = "ahrefs" \/ Truthy(o.doc))
         THEN [exc |-> FALSE, stats |-> NoResult, doc |-> o.doc]
         ELSE [exc |-> TRUE, stats |-> NoResult, doc |-> NoDoc]

\* The age of the entry a call finds (-1: none).
AgeOf(e, now) == IF e.stored THEN now - e.at ELSE -1

\* The cached function is called: a fresh entry is returned at once,
\* otherwise the function body starts and invokes make_ahrefs_request.
CachedCall ==
    /\ cpc = "idle"
    /\ Len(calls) < MaxCacheCalls
    /\ IF Fresh(entry, seconds)
       THEN /\ calls' = Append(calls, [at |-> seconds, age |-> AgeOf(entry, seconds),
                                        invoked |-> 0, sent |-> 0,
                                        exc |-> entry.value.exc, degraded |-> FALSE])
            /\ UNCHANGED <<cpc, callAt, rpc, attempt_number, sent, waits, outcomes, delays, result>>
       ELSE /\ cpc' = "miss"
            /\ callAt' = seconds
            /\ rpc' = "wait"
            /\ attempt_number' = 1
            /\ sent' = 0
            /\ waits' = 0
            /\ outcomes' = <<>>
            /\ delays' = <<>>
            /\ result' = NoOutcome
            /\ UNCHANGED calls
    /\ UNCHANGED <<OutsideFetch, variant, fn, inPool, seconds, jumps, entry>>

\* make_ahrefs_request has returned or raised: the function body ends, and
\* what it returns is stored; an exception is not stored.
CachedReturn ==
    /\ cpc = "miss"
    /\ rpc \in {"returned", "raised"}
    /\ entry' = IF FnValue(result).exc THEN entry
                ELSE [stored |-> TRUE, at |-> seconds, value |-> FnValue(result)]
    /\ calls' = Append(calls, [at |-> callAt, age |-> AgeOf(entry, callAt),
                                invoked |-> 1, sent |-> sent,
                                exc |-> FnValue(result).exc,
                                degraded |-> rpc = "raised" /\ ~FnValue(result).exc])
    /\ cpc' = "idle"
    /\ rpc' = "idle"
    /\ attempt_number' = 0
    /\ sent' = 0
    /\ waits' = 0
    /\ outcomes' = <<>>
    /\ delays' = <<>>
    /\ result' = NoOutcome
    /\ UNCHANGED <<OutsideFetch, variant, fn, inPool, seconds, jumps, callAt>>

\* time passes between two calls
CacheJump ==
    /\ cpc = "idle"
    /\ jumps < MaxJumps
    /\ \E d \in Jumps : seconds' = seconds + d
    /\ jumps' = jumps + 1
    /\ UNCHANGED <<OutsideFetch, variant, fn, inPool, entry, cpc, callAt, calls, rpc, attempt_number, sent, waits, outcomes, delays, result>>

InitFetch ==
    /\ variant \in Variants
    /\ fn \in CachedFunctions
    /\ inPool \in (IF fn = "get_tier2_stats_cached" THEN BOOLEAN ELSE {FALSE})
    /\ seconds = 0
    /\ jumps = 0
    /\ entry = NoEntry
    /\ cpc = "idle"
    /\ callAt = 0
    /\ calls = <<>>
    /\ rpc = "idle"
    /\ attempt_number = 0
    /\ sent = 0
    /\ waits = 0
    /\ outcomes = <<>>
    /\ delays = <<>>
    /\ result = NoOutcome
    /\ RLIdle
    /\ BatchIdle
    /\ QueryIdle
    /\ AggIdle /\ ProgIdle /\ KeyIdle /\ LiveIdle
NextFetch == CachedCall \/ ReqWait \/ ReqSend \/ ReqBackoff \/ CachedReturn \/ CacheJump
SpecFetch == InitFetch /\ [][NextFetch]_vars

---------------------------------------------------------------------------
(* The button handler: bulk fetch, record set, enrichment, aggregation.     *)
(* (The Comparer page is taken with its reference-domain field left empty. *)
(* The slider offers 10..1000; the limit is scaled down to 1..MaxLimit, as  *)
(* only the number of records is compared with it.)                         *)

\* The all-backlinks body with a list of n backlinks.
DocList(n) == [metrics |-> FALSE, live |-> -1, live_refdomains |-> -1, backlinks |-> n]

\* Bodies the provider may answer the bulk query with: a list of any length,
\* {}, or a body without the 'backlinks' key.
BulkDocs == {DocList(n) : n \in 0..MaxRecords} \cup {DocEmpty, DocFull}

BulkOutcomes ==
    {[kind |-> "ok", doc |-> d, error |-> NoError, last |-> NoError] : d \in BulkDocs} \cup
    {[kind |-> k, doc |-> NoDoc, error |-> NoError, last |-> NoError] : k \in Failures}

\* (mutant: the handler goes on whatever the bulk fetch gave)
AnyResult(doc) == TRUE

\* if result and 'backlinks' in result
HasBacklinks(doc) == Truthy(doc) /\ doc.backlinks >= 0

\* result = get_backlinks_cached(url_input, limit, mode, aggregation);
\* df = pd.DataFrame(result['backlinks']), or the error message
QueryFetch ==
    /\ hpc = "clicked"
    /\ \E o \in BulkOutcomes :
        /\ bulk' = o
        /\ IF ~Backlinks(o).exc /\ HasBacklinks(Backlinks(o).doc)
           THEN /\ hpc' = "fetched"
                /\ urls' = UrlList(Backlinks(o).doc.backlinks)
                /\ status' = [i \in 1..Backlinks(o).doc.backlinks |-> "queued"]
                /\ future' = [i \in 1..Backlinks(o).doc.backlinks |-> NoResult]
                /\ reply' = [i \in 1..Backlinks(o).doc.backlinks |-> NoOutcome]
                /\ starts' = [i \in 1..Backlinks(o).doc.backlinks |-> 0]
           ELSE /\ hpc' = "error"
                /\ UNCHANGED <<urls, status, future, reply, starts>>
    /\ UNCHANGED <<OutsideQuery, variant, check_tier2, queue, tier2_live_links, tier2_live_refdomains, df, limit, views>>

\* analyze_yearly_distribution(df) and the aggregators after it: a record set
\* built from an empty list has no column, and df['first_seen'] raises
\* KeyError, which the pages catch and show as an error
QueryAggregate ==
    /\ hpc = "shown"
    /\ IF HasUrlColumn
       THEN /\ hpc' = "displayed"
            /\ views' = [produced |-> TRUE, total |-> Len(urls)]
       ELSE /\ hpc' = IF variant = "app" THEN "keyerror" ELSE "error"
            /\ UNCHANGED views
    /\ UNCHANGED <<OutsideQuery, variant, urls, check_tier2, queue, status, future, reply, starts, tier2_live_links, tier2_live_refdomains, df, limit, bulk>>

InitQuery ==
    /\ variant \in BatchVariants
    /\ limit \in 1..MaxLimit
    /\ check_tier2 \in BOOLEAN
    /\ hpc = "clicked"
    /\ bulk = NoOutcome
    /\ views = NoViews
    /\ urls = <<>>
    /\ queue = <<>>
    /\ status = <<>>
    /\ future = <<>>
    /\ reply = <<>>
    /\ starts = <<>>
    /\ tier2_live_links = <<>>
    /\ tier2_live_refdomains = <<>>
    /\ df = NoColumns
    /\ RLIdle
    /\ FetchIdle
    /\ AggIdle /\ ProgIdle /\ KeyIdle /\ LiveIdle
NextQuery ==
    \/ QueryFetch \/ HandlerEnrich \/ HandlerSkip \/ HandlerKeyError \/ StartTask
    \/ FinishTask \/ BatchReturn \/ HandlerAttach \/ QueryAggregate
SpecQuery == InitQuery /\ [][NextQuery]_vars

---------------------------------------------------------------------------
(* Aggregators: analyze_yearly_distribution, analyze_dr_distribution,       *)
(* analyze_tier_distribution and get_max_metrics, applied to a DataFrame in *)
(* the order in which the handlers call them, then the CSV export.          *)

BaseColumns == {"domain_rating_source", "url_from", "first_seen", "link_type"}
Tier2Columns == {"tier2_live_links", "tier2_live_refdomains"}

\* Values of the fields of a backlink.  domain_rating_source is a number with
\* one decimal place and is counted in tenths (295 is 29.5); first_seen is a
\* date, of which the year and the month are kept.
Ratings == {290, 295, 600}
FirstSeen == {<<2020, 12>>, <<2021, 1>>}
Tier2Counts == {0, 3, 4, 11}

\* A DataFrame built from n backlinks, enriched or not; url_from is told
\* apart by the place of the backlink in the answer.
FramesOf(n) ==
    {[columns |-> BaseColumns \cup (IF f.enriched THEN Tier2Columns ELSE {}),
      rows |-> [i \in 1..n |->
                  [url_from |-> i,
                   domain_rating_source |-> f.rows[i][1],
                   first_seen |-> f.rows[i][2],
                   tier2_live_links |-> IF f.enriched THEN f.rows[i][3] ELSE -1,
                   year |-> -1]]] :
        f \in [enriched : BOOLEAN,
               rows : [1..n -> Ratings \X FirstSeen \X Tier2Counts]]}

Frames == {NoFrame} \cup UNION {FramesOf(n) : n \in 1..MaxRows}

NumRows(d) == Len(d.rows)

\* pd.to_datetime(df['first_seen']).dt.year
Year(first_seen) == first_seen[1]

\* df['year'] = ...: the column is added to the DataFrame that was passed in
WithYear(d) ==
    [columns |-> d.columns \cup {"year"},
     rows |-> [i \in 1..NumRows(d) |-> [d.rows[i] EXCEPT !.year = Year(d.rows[i].first_seen)]]]

RECURSIVE SortIndex(_)
SortIndex(S) ==
    IF S = {} THEN <<>>
    ELSE LET least == CHOOSE x \in S : \A y \in S : x <= y
         IN  <<least>> \o SortIndex(S \ {least})

\* df['year'].value_counts().sort_index()
ValueCounts(d) ==
    LET index == SortIndex({d.rows[i].year : i \in 1..NumRows(d)})
    IN  [k \in 1..Len(index) |->
            [year |-> index[k],
             count |-> Cardinality({i \in 1..NumRows(d) : d.rows[i].year = index[k]})]]

\* yearly_counts.cumsum()
RECURSIVE CumSum(_, _)
CumSum(counts, k) == IF k = 0 THEN 0 ELSE CumSum(counts, k - 1) + counts[k].count

\* yearly_data.sort_values('Année')
SortValues(t) ==
    LET index == SortIndex({t[k].Annee : k \in 1..Len(t)})
    IN  [k \in 1..Len(index) |-> CHOOSE r \in {t[j] : j \in 1..Len(t)} : r.Annee = index[k]]

\* analyze_yearly_distribution, on the DataFrame that already has its year
YearlyData(d) ==
    LET yearly_counts == ValueCounts(d)
    IN  SortValues([k \in 1..Len(yearly_counts) |->
                      [Annee |-> yearly_counts[k].year,
                       liens |-> yearly_counts[k].count,
                       cumules |-> CumSum(yearly_counts, k)]])

dr_ranges ==
    << [min |-> 0, max |-> 29], [min |-> 30, max |-> 44],
       [min |-> 45, max |-> 59], [min |-> 60, max |-> 100] >>

\* len(df[(df['domain_rating_source'] >= min_dr) & (... <= max_dr)]), the
\* rating being counted in tenths
AnalyzeDR(d) ==
    [k \in 1..Len(dr_ranges) |->
        Cardinality({i \in 1..NumRows(d) :
            /\ d.rows[i].domain_rating_source >= 10 * dr_ranges[k].min
            /\ d.rows[i].domain_rating_source <= 10 * dr_ranges[k].max})]

\* inf marks the band whose upper bound is float('inf')
tier_ranges ==
    << [min |-> 0, max |-> 0, inf |-> FALSE], [min |-> 1, max |-> 3, inf |-> FALSE],
       [min |-> 4, max |-> 10, inf |-> FALSE], [min |-> 11, max |-> 0, inf |-> TRUE] >>

\* (mutant: the open band is taken as a closed one)
TierCountClosed(d, column_name, band) ==
    Cardinality({i \in 1..NumRows(d) :
        d.rows[i][column_name] >= band.min /\ d.rows[i][column_name] <= band.max})

\* the three branches of the loop body of analyze_tier_distribution
TierCount(d, column_name, band) ==
    IF ~band.inf /\ band.min = band.max
    THEN Cardinality({i \in 1..NumRows(d) : d.rows[i][column_name] = band.min})
    ELSE IF band.inf
    THEN Cardinality({i \in 1..NumRows(d) : d.rows[i][column_name] >= band.min})
    ELSE Cardinality({i \in 1..NumRows(d) :
            d.rows[i][column_name] >= band.min /\ d.rows[i][column_name] <= band.max})

\* analyze_tier_distribution(df, column_name)
AnalyzeTier(d, column_name) ==
    IF column_name \notin d.columns
    THEN [k \in 1..Len(tier_ranges) |-> 0]
    ELSE [k \in 1..Len(tier_ranges) |-> TierCount(d, column_name, tier_ranges[k])]

\* (mutant: the last row that attains the maximum)
IdxMaxLast(d) ==
    CHOOSE i \in 1..NumRows(d) :
        /\ \A j \in 1..NumRows(d) : d.rows[j].domain_rating_source <= d.rows[i].domain_rating_source
        /\ \A j \in (i + 1)..NumRows(d) : d.rows[j].domain_rating_source < d.rows[i].domain_rating_source

\* df['domain_rating_source'].idxmax(): the first row that attains the maximum
IdxMax(d) ==
    CHOOSE i \in 1..NumRows(d) :
        /\ \A j \in 1..NumRows(d) : d.rows[j].domain_rating_source <= d.rows[i].domain_rating_source
        /\ \A j \in 1..(i - 1) : d.rows[j].domain_rating_source < d.rows[i].domain_rating_source

\* df[column].max()
ColumnMax(d, column_name) ==
    LET values == {d.rows[i][column_name] : i \in 1..NumRows(d)}
    IN  CHOOSE v \in values : \A w \in values : w <= v

\* 'max_tier': the placeholder 'N/A' (-1) in app.py and on the Ahrefs page,
\* the largest tier2_live_links on the Comparer page
MaxTier(d) ==
    IF variant # "comparer" THEN -1
    ELSE IF "tier2_live_links" \in d.columns THEN ColumnMax(d, "tier2_live_links") ELSE 0

\* get_max_metrics(df)
GetMaxMetrics(d) ==
    IF NumRows(d) = 0 THEN NoMetrics
    ELSE [max_dr |-> ColumnMax(d, "domain_rating_source"),
          max_tier |-> MaxTier(d),
          max_dr_url |-> d.rows[IdxMax(d)].url_from,
          max_dr_value |-> d.rows[IdxMax(d)].domain_rating_source]

\* yearly_data = analyze_yearly_distribution(df); df['first_seen'] of a
\* DataFrame without that column raises KeyError
AggYearly ==
    /\ apc = "yearly"
    /\ IF "first_seen" \in adf.columns
       THEN /\ adf' = WithYear(adf)
            /\ yearly_data' = YearlyData(WithYear(adf))
            /\ apc' = "dr"
       ELSE /\ apc' = "keyerror"
            /\ UNCHANGED <<adf, yearly_data>>
    /\ UNCHANGED <<OutsideAgg, variant, adf0, dr_distribution, links_distribution, max_metrics, csv>>

\* dr_distribution = analyze_dr_distribution(df)
AggDR ==
    /\ apc = "dr"
    /\ dr_distribution' = AnalyzeDR(adf)
    /\ apc' = "tier"
    /\ UNCHANGED <<OutsideAgg, variant, adf, adf0, yearly_data, links_distribution, max_metrics, csv>>

\* analyze_tier_distribution(df, 'tier2_live_links'), applied to every
\* DataFrame: the handlers call it for one that has the column; the function
\* has a branch of its own for one that has not.
AggTier ==
    /\ apc = "tier"
    /\ links_distribution' = AnalyzeTier(adf, "tier2_live_links")
    /\ apc' = "max"
    /\ UNCHANGED <<OutsideAgg, variant, adf, adf0, yearly_data, dr_distribution, max_metrics, csv>>

\* max_metrics = get_max_metrics(df)
AggMax ==
    /\ apc = "max"
    /\ max_metrics' = GetMaxMetrics(adf)
    /\ apc' = "export"
    /\ UNCHANGED <<OutsideAgg, variant, adf, adf0, yearly_data, dr_distribution, links_distribution, csv>>

\* st.dataframe(df, ...); csv = df.to_csv(index=False)
AggExport ==
    /\ apc = "export"
    /\ csv' = adf.columns
    /\ apc' = "done"
    /\ UNCHANGED <<OutsideAgg, variant, adf, adf0, yearly_data, dr_distribution, links_distribution, max_metrics>>

InitAggr ==
    /\ variant \in Variants
    /\ adf \in Frames
    /\ adf0 = adf
    /\ apc = "yearly"
    /\ yearly_data = <<>>
    /\ dr_distribution = <<>>
    /\ links_distribution = <<>>
    /\ max_metrics = NoMetrics
    /\ csv = {}
    /\ RLIdle
    /\ BatchIdle
    /\ FetchIdle
    /\ QueryIdle
    /\ ProgIdle /\ KeyIdle /\ LiveIdle
NextAggr == AggYearly \/ AggDR \/ AggTier \/ AggMax \/ AggExport
SpecAggr == InitAggr /\ [][NextAggr]_vars

---------------------------------------------------------------------------
(* Progress reports of analyze_tier2_links_parallel.  On the Ahrefs page    *)
(* process_url, run by the workers of the pool, adds 1 to `processed`,      *)
(* computes processed / total_urls and passes it to progress_bar.progress,  *)
(* with no lock.  On the Comparer page process_url adds 1 to                *)
(* processed_count under processed_lock and the main thread alone reports,  *)
(* in its waiting loop and once more after the pool has shut down.  A       *)
(* progress value n / total_urls is written as n.                           *)

ProgTasks == 1..total_urls
ProgRunning == {t \in ProgTasks : ppc[t] \notin {"queued", "done"}}

\* a worker of the pool takes the next call of process_url, which runs
\* get_tier2_stats_cached(url)
ProgStart(t) ==
    /\ mpc = "wait"
    /\ ppc[t] = "queued"
    /\ \A u \in 1..(t - 1) : ppc[u] # "queued"
    /\ Cardinality(ProgRunning) < max_workers
    /\ ppc' = [ppc EXCEPT ![t] = "lookup"]
    /\ UNCHANGED <<OutsideProg, variant, total_urls, processed, processed_lock, loaded, progress, reported, polls, mpc>>

\* Ahrefs page, processed += 1: the read of the counter
ProgLoad(t) ==
    /\ variant = "ahrefs"
    /\ ppc[t] = "lookup"
    /\ loaded' = [loaded EXCEPT ![t] = processed]
    /\ ppc' = [ppc EXCEPT ![t] = "store"]
    /\ UNCHANGED <<OutsideProg, variant, total_urls, processed, processed_lock, progress, reported, polls, mpc>>

\* Ahrefs page, processed += 1: the write of the value read plus 1
ProgStore(t) ==
    /\ ppc[t] = "store"
    /\ processed' = loaded[t] + 1
    /\ ppc' = [ppc EXCEPT ![t] = "compute"]
    /\ UNCHANGED <<OutsideProg, variant, total_urls, processed_lock, loaded, progress, reported, polls, mpc>>

\* Ahrefs page: progress = processed / total_urls
ProgCompute(t) ==
    /\ ppc[t] = "compute"
    /\ progress' = [progress EXCEPT ![t] = processed]
    /\ ppc' = [ppc EXCEPT ![t] = "report"]
    /\ UNCHANGED <<OutsideProg, variant, total_urls, processed, processed_lock, loaded, reported, polls, mpc>>

\* Ahrefs page: progress_bar.progress(progress), then process_url returns
ProgReport(t) ==
    /\ ppc[t] = "report"
    /\ reported' = Append(reported, progress[t])
    /\ ppc' = [ppc EXCEPT ![t] = "done"]
    /\ UNCHANGED <<OutsideProg, variant, total_urls, processed, processed_lock, loaded, progress, polls, mpc>>

\* Comparer page: with processed_lock
ProgAcquire(t) ==
    /\ variant = "comparer"
    /\ ppc[t] = "lookup"
    /\ processed_lock = 0
    /\ processed_lock' = t
    /\ ppc' = [ppc EXCEPT ![t] = "locked"]
    /\ UNCHANGED <<OutsideProg, variant, total_urls, processed, loaded, progress, reported, polls, mpc>>

\* Comparer page: processed_count += 1, the lock is released and process_url
\* returns
ProgCount(t) ==
    /\ ppc[t] = "locked"
    /\ processed' = processed + 1
    /\ processed_lock' = 0
    /\ ppc' = [ppc EXCEPT ![t] = "done"]
    /\ UNCHANGED <<OutsideProg, variant, total_urls, loaded, progress, reported, polls, mpc>>

\* Comparer page, one pass of `while any(not f.done() for f in futures)`:
\* progress_bar.progress(processed_count / total_urls), then time.sleep(0.1)
ProgPoll ==
    /\ variant = "comparer"
    /\ mpc = "wait"
    /\ \E t \in ProgTasks : ppc[t] # "done"
    /\ polls < MaxPolls
    /\ polls' = polls + 1
    /\ reported' = Append(reported, processed)
    /\ UNCHANGED <<OutsideProg, variant, total_urls, processed, processed_lock, ppc, loaded, progress, mpc>>

\* every call has returned and the pool shuts down; on the Comparer page
\* progress_bar.progress(1.0) follows
ProgReturn ==
    /\ mpc = "wait"
    /\ \A t \in ProgTasks : ppc[t] = "done"
    /\ reported' = IF variant = "comparer" THEN Append(reported, total_urls) ELSE reported
    /\ mpc' = "returned"
    /\ UNCHANGED <<OutsideProg, variant, total_urls, processed, processed_lock, ppc, loaded, progress, polls>>

InitProgress ==
    /\ variant \in Variants
    /\ total_urls \in 1..MaxTasks
    /\ processed = 0
    /\ processed_lock = 0
    /\ ppc = [t \in ProgTasks |-> "queued"]
    /\ loaded = [t \in ProgTasks |-> 0]
    /\ progress = [t \in ProgTasks |-> 0]
    /\ reported = <<>>
    /\ polls = 0
    /\ mpc = "wait"
    /\ RLIdle
    /\ BatchIdle
    /\ FetchIdle
    /\ QueryIdle
    /\ AggIdle /\ KeyIdle /\ LiveIdle
NextProgress ==
    \/ \E t \in ProgTasks :
        \/ ProgStart(t)
        \/ ProgLoad(t)
        \/ ProgStore(t)
        \/ ProgCompute(t)
        \/ ProgReport(t)
        \/ ProgAcquire(t)
        \/ ProgCount(t)
    \/ ProgPoll
    \/ ProgReturn
SpecProgress == InitProgress /\ [][NextProgress]_vars

---------------------------------------------------------------------------
(* The keys of st.cache_data: an entry is stored under the arguments the    *)
(* function was called with, while the request is built inside the function *)
(* from the arguments and, for the tier-2 statistics, from today's date.    *)

SecondsPerDay == 86400

\* A URL as typed or as found in url_from: with or without blanks around it,
\* with or without its scheme; enc tells how its text has been escaped.
Urls ==
    {[pad |-> FALSE, scheme |-> sc, host |-> "a.com", enc |-> "raw"] : sc \in {"", "https://"}} \cup
    {[pad |-> TRUE, scheme |-> "https://", host |-> "a.com", enc |-> "raw"],
     [pad |-> FALSE, scheme |-> "https://", host |-> "b.com", enc |-> "raw"]}

\* values of the `limit` argument (mode and aggregation are passed to the
\* endpoint unchanged in the same way)
Limits == {10, 20}

\* The tuples of arguments of the function called.
KeyArgs ==
    IF kFn = "get_backlinks_cached"
    THEN [url : Urls, limit : Limits]
    ELSE [url : Urls, limit : {0}]

\* url.strip()
Strip(u) == [u EXCEPT !.pad = FALSE]

\* if not url.startswith(('http://', 'https://')): url = 'https://' + url
WithScheme(u) == IF u.scheme = "" THEN [u EXCEPT !.scheme = "https://"] ELSE u

\* quote(url, safe='')
Quote(u) == [u EXCEPT !.enc = "quote"]

\* url.replace(':', '%3A').replace('/', '%2F')
Replace(u) == [u EXCEPT !.enc = "replace"]

\* encode_url_for_ahrefs(url) of the Comparer page
encode_url_for_ahrefs(u) == Quote(WithScheme(Strip(u)))

\* datetime.now().strftime("%Y-%m-%d")
DateOf(now) == now \div SecondsPerDay

\* The endpoint a call with these arguments builds at time now.
Resolved(args, now) ==
    IF kFn = "get_backlinks_cached"
    THEN [endpoint |-> "all-backlinks",
          target |-> IF variant = "comparer" THEN encode_url_for_ahrefs(args.url)
                     ELSE Replace(args.url),
          limit |-> args.limit,
          date |-> -1]
    ELSE [endpoint |-> "backlinks-stats",
          target |-> Replace(args.url),
          limit |-> 0,
          date |-> DateOf(now)]

\* Times of the first call: noon, and half an hour before midnight.
KeyStarts == {SecondsPerDay \div 2, SecondsPerDay - (ttl \div 2)}

\* How far the time moves between two calls.
KeySteps == {ttl \div 2, ttl}

\* The cached function is called with args: the entry stored under args is
\* returned if it is fresh; otherwise the body runs and what it returns is
\* stored under args (get_backlinks_cached may raise, and nothing is stored).
KeyCall(args) ==
    /\ kCalls < MaxKeyCalls
    /\ kCalls' = kCalls + 1
    /\ IF Fresh(kCache[args], kNow)
       THEN /\ kLast' = [made |-> TRUE, hit |-> TRUE, request |-> Resolved(args, kNow),
                          served |-> kCache[args].request]
            /\ UNCHANGED kCache
       ELSE \E returns \in (IF kFn = "get_tier2_stats_cached" THEN {TRUE} ELSE BOOLEAN) :
            IF returns
            THEN /\ kCache' = [kCache EXCEPT ![args] =
                                  [stored |-> TRUE, at |-> kNow, request |-> Resolved(args, kNow)]]
                 /\ kLast' = [made |-> TRUE, hit |-> FALSE, request |-> Resolved(args, kNow),
                               served |-> Resolved(args, kNow)]
            ELSE /\ kLast' = [made |-> TRUE, hit |-> FALSE, request |-> Resolved(args, kNow),
                               served |-> NoRequest]
                 /\ UNCHANGED kCache
    /\ UNCHANGED <<OutsideKey, variant, kFn, kNow, kJumps>>

\* time passes between two calls
KeyTick ==
    /\ kJumps < MaxKeyJumps
    /\ kJumps' = kJumps + 1
    /\ \E d \in KeySteps : kNow' = kNow + d
    /\ UNCHANGED <<OutsideKey, variant, kFn, kCache, kLast, kCalls>>

InitKey ==
    /\ variant \in Variants
    /\ kFn \in CachedFunctions
    /\ kNow \in KeyStarts
    /\ kCache = [args \in KeyArgs |-> NoKeyEntry]
    /\ kLast = NoKeyCall
    /\ kCalls = 0
    /\ kJumps = 0
    /\ RLIdle
    /\ BatchIdle
    /\ FetchIdle
    /\ QueryIdle
    /\ AggIdle
    /\ ProgIdle
    /\ LiveIdle
NextKey == (\E args \in KeyArgs : KeyCall(args)) \/ KeyTick
SpecKey == InitKey /\ [][NextKey]_vars

---------------------------------------------------------------------------
(* One enrichment batch of the Comparer page, each lookup followed through  *)
(* the attempts of make_ahrefs_request and through RateLimiter.wait, which  *)
(* sleeps while it holds the lock.  Every step that waits for something     *)
(* outside the program (the sleep, the answer or the failure of a request,  *)
(* the back-off) is a step that can be taken.                               *)

LiveTasks == 1..wtotal
LiveRunning == {t \in LiveTasks : wpc[t] \notin {"queued", "done"}}

\* a worker of the pool takes the call of process_url for the next URL;
\* get_tier2_stats_cached calls make_ahrefs_request, whose first attempt
\* calls rate_limiter.wait()
LiveStart(t) ==
    /\ wmain = "wait"
    /\ wpc[t] = "queued"
    /\ \A u \in 1..(t - 1) : wpc[u] # "queued"
    /\ Cardinality(LiveRunning) < max_workers
    /\ wpc' = [wpc EXCEPT ![t] = "lock"]
    /\ wattempt' = [wattempt EXCEPT ![t] = 1]
    /\ UNCHANGED <<OutsideLive, variant, wtotal, wlock, wmain>>

\* with self._lock: the window is pruned and, at capacity, the call sleeps
\* with the lock held; otherwise it records its time and leaves wait()
LiveAcquire(t) ==
    /\ wpc[t] = "lock"
    /\ wlock = 0
    /\ \/ /\ wlock' = t
          /\ wpc' = [wpc EXCEPT ![t] = "sleep"]
       \/ /\ wlock' = 0
          /\ wpc' = [wpc EXCEPT ![t] = "send"]
    /\ UNCHANGED <<OutsideLive, variant, wtotal, wattempt, wmain>>

\* (mutant: the lock is not released after the sleep)
LiveWakeKeepsLock(t) ==
    /\ wpc[t] = "sleep"
    /\ wpc' = [wpc EXCEPT ![t] = "send"]
    /\ UNCHANGED <<OutsideLive, variant, wtotal, wattempt, wlock, wmain>>

\* time.sleep(sleep_time) returns; self.requests.append(now); the lock is
\* released as wait() returns
LiveWake(t) ==
    /\ wpc[t] = "sleep"
    /\ wlock' = 0
    /\ wpc' = [wpc EXCEPT ![t] = "send"]
    /\ UNCHANGED <<OutsideLive, variant, wtotal, wattempt, wmain>>

\* the request of the attempt returns a body or fails: on a failure tenacity
\* stops after the third attempt, and get_tier2_stats_cached catches the
\* exception and returns (0, 0)
LiveAttempt(t) ==
    /\ wpc[t] = "send"
    /\ \E ok \in BOOLEAN :
        wpc' = [wpc EXCEPT ![t] = IF ok \/ Stop(wattempt[t]) THEN "count" ELSE "backoff"]
    /\ UNCHANGED <<OutsideLive, variant, wtotal, wattempt, wlock, wmain>>

\* tenacity's sleep is over: the next attempt starts with rate_limiter.wait()
LiveBackoff(t) ==
    /\ wpc[t] = "backoff"
    /\ wattempt' = [wattempt EXCEPT ![t] = @ + 1]
    /\ wpc' = [wpc EXCEPT ![t] = "lock"]
    /\ UNCHANGED <<OutsideLive, variant, wtotal, wlock, wmain>>

\* with processed_lock: processed_count += 1; process_url returns and the
\* future is done
LiveCount(t) ==
    /\ wpc[t] = "count"
    /\ wpc' = [wpc EXCEPT ![t] = "done"]
    /\ UNCHANGED <<OutsideLive, variant, wtotal, wattempt, wlock, wmain>>

\* no future is left that is not done: the waiting loop ends, the results
\* are read and analyze_tier2_links_parallel returns
LiveReturn ==
    /\ wmain = "wait"
    /\ \A t \in LiveTasks : wpc[t] = "done"
    /\ wmain' = "returned"
    /\ UNCHANGED <<OutsideLive, variant, wtotal, wpc, wattempt, wlock>>

LiveStep(t) ==
    /\ t \in LiveTasks
    /\ \/ LiveStart(t)
       \/ LiveAcquire(t)
       \/ LiveWake(t)
       \/ LiveAttempt(t)
       \/ LiveBackoff(t)
       \/ LiveCount(t)

InitLive ==
    /\ variant = "comparer"
    /\ wtotal \in 1..MaxLiveTasks
    /\ wpc = [t \in LiveTasks |-> "queued"]
    /\ wattempt = [t \in LiveTasks |-> 0]
    /\ wlock = 0
    /\ wmain = "wait"
    /\ RLIdle
    /\ BatchIdle
    /\ FetchIdle
    /\ QueryIdle
    /\ AggIdle
    /\ ProgIdle
    /\ KeyIdle
NextLive == (\E t \in LiveTasks : LiveStep(t)) \/ LiveReturn
SpecLive == InitLive /\ [][NextLive]_vars

\* Fair scheduling: a worker that can take its next step, and the main
\* thread once every future is done, is not held back forever.
FairLive ==
    /\ SpecLive
    /\ \A t \in 1..MaxLiveTasks : WF_vars(LiveStep(t))
    /\ WF_vars(LiveReturn)

---------------------------------------------------------------------------
(* Claims *)

N == requests_per_second

\* C1: no half-open interval of one second holds more than N release instants
\* (any N+1 consecutive releases span at least one second).
C1_RateLimit ==
    \A i \in 1..Len(released) :
        i + N <= Len(released) => released[i + N] - released[i] >= TicksPerSec

\* Callers between the read of self.requests and the append.
InWindow == {t \in Running : t.pc # "lock"}

\* C2: the read-prune-check-append sequence is run by at most one worker at a
\* time, and no recorded timestamp is dropped by a concurrent reassignment.
C2_MutualExclusion ==
    /\ \A t \in InWindow : threads[t] = 1 /\ InWindow = {t}
    /\ ~lostAppend

\* Two interleaved callers: one lost a recorded timestamp of the other, and a
\* wait() call ended with IndexError on self.requests[0].
C2_RaceRaises == nRaised > 0 /\ lostAppend

Returned == hpc = "returned" \/ (hpc = "shown" /\ df.tier2)

\* C4: the two returned lists are as long as the input and their i-th
\* elements are what the lookup of the i-th URL returned.
C4_IndexOrder ==
    Returned =>
        /\ Len(tier2_live_links) = Len(urls)
        /\ Len(tier2_live_refdomains) = Len(urls)
        /\ \A i \in 1..Len(urls) :
            /\ tier2_live_links[i] = future[i].live
            /\ tier2_live_refdomains[i] = future[i].refdomains

C4_Witness ==
    /\ hpc = "returned"
    /\ variant # "app"
    /\ Len(urls) >= 3
    /\ future[1] # future[2]
    /\ future[2] # future[3]

\* C5: the batch never ends with an exception; the entry of a URL whose
\* request failed is (0, 0), and the entry of a URL whose request was
\* answered with live metrics is that answer.
C5_FailureContained ==
    /\ hpc # "error"
    /\ Returned =>
        \A i \in 1..Len(urls) :
            /\ reply[i].kind \in Failures =>
                tier2_live_links[i] = 0 /\ tier2_live_refdomains[i] = 0
            /\ (reply[i].kind = "ok" /\ reply[i].doc.metrics /\ reply[i].doc.live >= 0) =>
                /\ tier2_live_links[i] = reply[i].doc.live
                /\ tier2_live_refdomains[i] = reply[i].doc.live_refdomains

C5_Witness ==
    /\ hpc = "returned"
    /\ \E i, j \in 1..Len(urls) :
        /\ reply[i].kind \in Failures
        /\ reply[j].kind = "ok" /\ reply[j].doc = DocFull

\* C6: the batch has returned, or the record set carries tier-2 columns,
\* only when every submitted URL has produced its result.
C6_NoPartialEnrichment ==
    (hpc = "returned" \/ df.tier2 \/ tier2_live_links # <<>>) =>
        /\ \A i \in 1..Len(urls) : status[i] = "done" /\ future[i] # NoResult
        /\ queue = <<>>

C6_Witness == df.tier2 /\ Len(urls) >= 2 /\ variant # "app"

\* C7: at most 5 lookups are in progress at any moment and every URL is
\* taken by exactly one worker task.
C7_BoundedPool ==
    /\ NumRunning <= 5
    /\ \A i \in 1..Len(urls) :
        /\ starts[i] <= 1
        /\ status[i] # "queued" => starts[i] = 1
    /\ Returned => \A i \in 1..Len(urls) : starts[i] = 1

C7_Witness == NumRunning = 5 /\ queue # <<>>

\* C8 as stated: the first call and a second call made less than the TTL
\* later produce exactly one network request in total, and a call made once
\* the TTL has elapsed since the stored result produces a network request.
C8_OneNetworkCall ==
    /\ (Len(calls) >= 2 /\ calls[2].at - calls[1].at < ttl) =>
        calls[1].sent + calls[2].sent = 1
    /\ \A i \in 1..Len(calls) : calls[i].age >= ttl => calls[i].sent >= 1

\* C8, amended: a call served from the cache invokes nothing and sends
\* nothing; a call that runs the function body invokes make_ahrefs_request
\* once, which sends at most 3 requests; when such a call returned a result, a
\* call made less than the TTL later is served from the cache; when it
\* raised, the next call runs the body again; a call that finds an entry as
\* old as the TTL or older runs the body again.
C8_CacheContract ==
    \A i \in 1..Len(calls) :
        /\ calls[i].invoked = 0 => calls[i].sent = 0
        /\ calls[i].sent <= stop_after_attempt
        /\ calls[i].age >= ttl => calls[i].invoked = 1
        /\ (i > 1 /\ calls[i - 1].invoked = 1 /\ ~calls[i - 1].exc
                  /\ calls[i].at - calls[i - 1].at < ttl) =>
                calls[i].invoked = 0
        /\ (i > 1 /\ calls[i - 1].invoked = 1 /\ calls[i - 1].exc) =>
                calls[i].invoked = 1

C8_Witness ==
    /\ Len(calls) = 3
    /\ calls[1].invoked = 1 /\ calls[1].sent >= 2 /\ ~calls[1].exc
    /\ calls[2].invoked = 0 /\ calls[2].at - calls[1].at < ttl
    /\ calls[3].invoked = 1 /\ calls[3].age >= ttl

\* The invocation of make_ahrefs_request has ended.
Ended == rpc \in {"returned", "raised"}

\* C9: one invocation issues at least 1 and at most 3 network requests;
\* when attempt k is the first to succeed exactly k requests were issued, and
\* an invocation that fails has issued 3.
C9_BoundedRetry ==
    /\ sent <= 3
    /\ Ended => sent >= 1
    /\ rpc = "returned" => sent = attempt_number
    /\ rpc = "raised" => sent = 3

\* C10: an attempt that received a 200 whose body is not JSON ends the
\* invocation at once: it is the last attempt and no back-off follows.
C10_ParseNotRetried ==
    \A k \in 1..Len(outcomes) :
        outcomes[k] = "parse" => (k = Len(outcomes) /\ rpc = "raised")

\* C11: when the third attempt has failed, the error the caller receives is
\* the error raised by that attempt, with its failure kind and, for a non-200
\* response, the provider's error body.
C11_LastErrorSurfaced ==
    rpc = "raised" =>
        /\ result.error = result.last
        /\ result.error.kind = outcomes[Len(outcomes)]
        /\ outcomes[Len(outcomes)] = "status" => result.error.body # ""

\* The bulk fetch has failed.
BulkFailed == bulk.kind \in Failures

\* C12: after a failed bulk fetch the handler is in its error state, no
\* record set exists, no tier-2 lookup was issued and nothing was aggregated.
C12_BulkFailureTerminal ==
    BulkFailed =>
        /\ hpc = "error"
        /\ urls = <<>> /\ queue = <<>> /\ starts = <<>>
        /\ ~df.tier2
        /\ ~views.produced

C12_Witness == BulkFailed /\ hpc = "error" /\ check_tier2

\* The provider answered the bulk query with an empty list of backlinks.
BulkEmpty == bulk.kind = "ok" /\ bulk.doc = DocList(0)

\* C13: after an empty answer the handler never ends in its error branch,
\* and issues no tier-2 lookup.
C13_EmptyNotError ==
    BulkEmpty =>
        /\ hpc \notin {"error", "keyerror"}
        /\ starts = <<>>

\* C14: the record set built from the answer has at most `limit` records.
C14_LimitRespected == Len(urls) <= limit

\* C15: each record is counted in exactly one of the four rating bands, so
\* the four counts sum to the number of records.
C15_RatingPartition ==
    dr_distribution # <<>> =>
        dr_distribution[1] + dr_distribution[2] + dr_distribution[3] + dr_distribution[4]
            = NumRows(adf)

\* The band {0}, [1,3], [4,10], [11,inf) of a tier-2 count.
TierBand(v) == IF v = 0 THEN 1 ELSE IF v <= 3 THEN 2 ELSE IF v <= 10 THEN 3 ELSE 4

\* C16: each record of an enriched set is counted in the band of its tier-2
\* count and in no other, so the four counts sum to the number of records; a
\* set without the column is counted in no band.
C16_TierPartition ==
    links_distribution # <<>> =>
        IF "tier2_live_links" \in adf.columns
        THEN /\ \A k \in 1..4 :
                    links_distribution[k] =
                        Cardinality({i \in 1..NumRows(adf) :
                                        TierBand(adf.rows[i].tier2_live_links) = k})
             /\ links_distribution[1] + links_distribution[2] + links_distribution[3]
                    + links_distribution[4] = NumRows(adf)
        ELSE \A k \in 1..4 : links_distribution[k] = 0

C16_Witness ==
    /\ apc = "max"
    /\ NumRows(adf) = 2
    /\ "tier2_live_links" \in adf.columns
    /\ links_distribution[3] = 1 /\ links_distribution[4] = 1

\* C17: for every record set the yearly table has one row per distinct year,
\* in strictly ascending order, with the count of that year and the running
\* sum, the last running sum being the number of records.
C17_Yearly ==
    /\ apc # "keyerror"
    /\ apc \notin {"idle", "yearly"} =>
        /\ {yearly_data[k].Annee : k \in 1..Len(yearly_data)}
                = {Year(adf0.rows[i].first_seen) : i \in 1..NumRows(adf0)}
        /\ \A k \in 1..Len(yearly_data) :
            /\ k > 1 => yearly_data[k - 1].Annee < yearly_data[k].Annee
            /\ yearly_data[k].liens =
                    Cardinality({i \in 1..NumRows(adf0) :
                                    Year(adf0.rows[i].first_seen) = yearly_data[k].Annee})
            /\ yearly_data[k].cumules =
                    Cardinality({i \in 1..NumRows(adf0) :
                                    Year(adf0.rows[i].first_seen) <= yearly_data[k].Annee})
        /\ Len(yearly_data) > 0 => yearly_data[Len(yearly_data)].cumules = NumRows(adf0)

\* get_max_metrics has been applied to a non-empty record set.
MaxComputed == apc \in {"export", "done"} /\ NumRows(adf0) > 0

\* C18: max_dr is the largest rating, max_dr_value equals it, and max_dr_url
\* is the url_from of the first record that attains it.
C18_Extremal ==
    MaxComputed =>
        /\ \A i \in 1..NumRows(adf0) : adf0.rows[i].domain_rating_source <= max_metrics.max_dr
        /\ \E i \in 1..NumRows(adf0) :
            /\ adf0.rows[i].domain_rating_source = max_metrics.max_dr
            /\ adf0.rows[i].url_from = max_metrics.max_dr_url
            /\ \A j \in 1..(i - 1) : adf0.rows[j].domain_rating_source < max_metrics.max_dr
        /\ max_metrics.max_dr_value = max_metrics.max_dr

C18_Witness ==
    /\ MaxComputed
    /\ NumRows(adf0) = 2
    /\ adf0.rows[1].domain_rating_source = adf0.rows[2].domain_rating_source
    /\ max_metrics.max_dr_url = adf0.rows[1].url_from

\* C19: the aggregators leave the record set as it was fetched and enriched,
\* and the CSV export has exactly its fields.
C19_InputUnchanged ==
    /\ adf = adf0
    /\ apc = "done" => csv = adf0.columns

\* C20: on both pages the values passed to progress_bar.progress during one
\* batch never decrease and lie between 0 and 1 (between 0 and total_urls as
\* numbers of URLs).
C20_ProgressMonotonic ==
    \A k \in 1..Len(reported) :
        /\ 0 <= reported[k] /\ reported[k] <= total_urls
        /\ k > 1 => reported[k - 1] <= reported[k]

\* C21: when the batch returns, the counter equals the number of URLs (one
\* increment per finished URL, none lost), one progress value has been
\* reported per URL at least, and the last reported value is total/total.
C21_CountsEveryUrl ==
    mpc = "returned" =>
        /\ processed = total_urls
        /\ Len(reported) >= total_urls
        /\ reported[Len(reported)] = total_urls

\* C22: for a record set that was not enriched, max_tier is not a number
\* (get_max_metrics' 'N/A' is written -1); for an enriched one it is the
\* largest tier2_live_links of the records.
C22_AbsentNotZero ==
    MaxComputed =>
        IF "tier2_live_links" \in adf0.columns
        THEN /\ \A i \in 1..NumRows(adf0) : adf0.rows[i].tier2_live_links <= max_metrics.max_tier
             /\ \E i \in 1..NumRows(adf0) : adf0.rows[i].tier2_live_links = max_metrics.max_tier
        ELSE max_metrics.max_tier < 0

\* C23: in every reachable state of the RateLimiter the requests list holds
\* at most N timestamps.
C23_ListBounded == Len(requests) <= N

\* C24: every timestamp in the requests list is the release instant of the
\* call it stands for (the k-th last timestamp is that of the k-th last call
\* released, the list being pruned from its front).
C24_StampIsRelease ==
    \A k \in 1..Len(requests) :
        k <= Len(released) =>
            requests[Len(requests) - k + 1] = released[Len(released) - k + 1]

\* C25: within one invocation the delay before the k-th retry is
\* min(10, 4 * 2^(k-1)) seconds: 4 s, then 8 s; none exceeds 10 s.
C25_BackoffSchedule ==
    \A k \in 1..Len(delays) :
        /\ delays[k] = Min(wait_max, wait_min * Power(exp_base, k - 1))
        /\ delays[k] <= wait_max

\* C26: every network request of an invocation, retries included, is issued
\* after a call of rate_limiter.wait() of its own has returned: the requests
\* issued never outnumber the wait() calls that returned.
C26_EveryAttemptLimited ==
    /\ sent <= waits
    /\ rpc = "send" => sent < waits

C26_Witness ==
    /\ fn = "get_tier2_stats_cached"
    /\ inPool
    /\ attempt_number = stop_after_attempt
    /\ sent = stop_after_attempt
    /\ waits = stop_after_attempt

\* Some tier-2 lookup has started.
LookupStarted == \E i \in DOMAIN starts : starts[i] > 0

\* C27: a tier-2 lookup starts only after the bulk fetch has returned the
\* record set; the aggregators run only after the batch has returned and its
\* lists are attached, when enrichment is enabled; with the option off no
\* lookup is ever started and no enrichment field is added.
C27_PipelineOrder ==
    /\ LookupStarted =>
            /\ hpc # "clicked"
            /\ bulk.kind = "ok"
            /\ bulk.doc = DocList(Len(urls))
    /\ (views.produced /\ check_tier2) =>
            /\ AllDone
            /\ df.tier2
            /\ Len(df.tier2_live_links) = Len(urls)
    /\ ~check_tier2 => ~LookupStarted /\ ~df.tier2

C27_Witness ==
    /\ views.produced
    /\ check_tier2
    /\ df.tier2
    /\ Len(urls) >= 2
    /\ \A i \in Tasks : starts[i] = 1

\* C28: a call served from the cache is served a result obtained for the
\* request it resolves to, and two calls that resolve to the same request
\* share one entry (no two fresh entries hold results of the same request).
C28_KeyMatchesRequest ==
    /\ kLast.hit => kLast.served = kLast.request
    /\ \A a, b \in DOMAIN kCache :
            (/\ Fresh(kCache[a], kNow)
             /\ Fresh(kCache[b], kNow)
             /\ kCache[a].request = kCache[b].request) => a = b

\* What get_tier2_stats_cached returns for a lookup that failed.
Degraded == [exc |-> FALSE, stats |-> Ret(0, 0), doc |-> NoDoc]

\* C29: when the request of get_tier2_stats_cached fails, (0, 0) is stored
\* with the time of the return; a call that finds a stored (0, 0) younger
\* than the TTL returns it at once, invoking and sending nothing and leaving
\* the entry as it is.
C29_DegradedMemoized ==
    [][/\ (fn = "get_tier2_stats_cached" /\ cpc = "miss" /\ rpc = "raised" /\ cpc' = "idle") =>
            entry' = [stored |-> TRUE, at |-> seconds, value |-> Degraded]
       /\ (/\ fn = "get_tier2_stats_cached"
           /\ entry.stored
           /\ entry.value = Degraded
           /\ seconds - entry.at < ttl
           /\ Len(calls') = Len(calls) + 1
           /\ cpc = "idle") =>
            /\ calls'[Len(calls')].invoked = 0
            /\ calls'[Len(calls')].sent = 0
            /\ cpc' = "idle"
            /\ entry' = entry]_vars

C29_Witness ==
    /\ fn = "get_tier2_stats_cached"
    /\ Len(calls) >= 2
    /\ calls[1].invoked = 1 /\ calls[1].degraded /\ calls[1].sent = stop_after_attempt
    /\ calls[2].invoked = 0 /\ calls[2].at > calls[1].at
    /\ entry.value = Degraded

====
